---- MODULE Spec2Model ----
(***************************************************************************)
(* Model of psycopg2ct/_impl/adapters.py: the adapter registry, adapt(),   *)
(* _getquoted() and the formatter classes' getquoted() methods.            *)
(*                                                                         *)
(* Literals are sequences of one-character strings.  A Python value is a   *)
(* record of one fixed shape (type, hook, kind, neg, mag, chars, items).   *)
(***************************************************************************)
EXTENDS Integers, Sequences, FiniteSets, TLC

VARIABLES adapters, PG_VERSION, call, nregs, pc, tval, tproto, idx, result, seen

vars == <<adapters, PG_VERSION, call, nregs, pc, tval, tproto, idx, result, seen>>

(* ------------------------------ bounds --------------------------------- *)
MaxRegs == 2
MaxInt == 2
MaxStrLen == 1

(* ------------------------- program constants --------------------------- *)
\* 0x080104, the server version from which the connection-aware escape is used
ConnAwareVersion == 524548

(* ------------------------------ values --------------------------------- *)
V(t, h, k, n, m, c, i) ==
    [type |-> t, hook |-> h, kind |-> k, neg |-> n, mag |-> m, chars |-> c, items |-> i]

NoneValue == V("NoneType", FALSE, "", FALSE, 0, <<>>, <<>>)

Alphabet == {"a", "'", "\\"}

Strings == UNION {[1..n -> Alphabet] : n \in 0..MaxStrLen}

\* int and long: no negative zero
IntValues(t) == {V(t, FALSE, "fin", n, m, <<>>, <<>>) : n \in BOOLEAN, m \in 0..MaxInt}
                    \ {V(t, FALSE, "fin", TRUE, 0, <<>>, <<>>)}

BoolValues == {V("bool", FALSE, "fin", FALSE, m, <<>>, <<>>) : m \in {0, 1}}

\* a finite float is mag/2 (0.0, 0.5, 1.0, ...), with a sign bit: -0.0 exists
FloatValues == {V("float", FALSE, k, n, m, <<>>, <<>>) :
                    k \in {"fin"}, n \in BOOLEAN, m \in 0..MaxInt}
               \cup {V("float", FALSE, k, n, 0, <<>>, <<>>) :
                    k \in {"inf", "nan"}, n \in BOOLEAN}

\* a finite decimal is the coefficient mag with a sign: Decimal('-0') exists
DecimalValues == {V("Decimal", FALSE, k, n, m, <<>>, <<>>) :
                    k \in {"fin"}, n \in BOOLEAN, m \in 0..MaxInt}
                 \cup {V("Decimal", FALSE, k, n, 0, <<>>, <<>>) :
                    k \in {"inf", "nan"}, n \in BOOLEAN}

StrValues(t) == {V(t, FALSE, "", FALSE, 0, s, <<>>) : s \in Strings}

CustomValue == V("Custom", FALSE, "", FALSE, 0, <<>>, <<>>)

\* an instance of the Binary class passed as a parameter: it has __conform__
BinaryObjects == {V("Binary", TRUE, "", FALSE, 0, <<>>, <<w>>) :
                    w \in StrValues("bytearray") \cup {NoneValue}}

Scalars == {NoneValue, CustomValue} \cup IntValues("int") \cup IntValues("long")
           \cup BoolValues \cup FloatValues \cup DecimalValues
           \cup StrValues("str") \cup StrValues("MyStr") \cup StrValues("bytearray")
           \cup BinaryObjects

ListOf(items) == V("list", FALSE, "", FALSE, 0, <<>>, items)

\* elements used inside sequences
Elements == {NoneValue, CustomValue,
             V("int", FALSE, "fin", TRUE, 1, <<>>, <<>>),
             V("str", FALSE, "", FALSE, 0, <<"'">>, <<>>),
             V("Binary", TRUE, "", FALSE, 0, <<>>,
               <<V("bytearray", FALSE, "", FALSE, 0, <<"a">>, <<>>)>>)}

FlatLists == {ListOf(<<>>)} \cup {ListOf(<<e>>) : e \in Elements}
             \cup {ListOf(<<e1, e2>>) : e1 \in Elements, e2 \in Elements}

InnerLists == {ListOf(<<>>), ListOf(<<NoneValue>>),
               ListOf(<<V("str", FALSE, "", FALSE, 0, <<"'">>, <<>>), NoneValue>>)}

NestedLists == {ListOf(<<l>>) : l \in InnerLists}
               \cup {ListOf(<<e, l>>) : e \in Elements, l \in InnerLists}

Values == Scalars \cup FlatLists \cup NestedLists

(* ------------------------------- types --------------------------------- *)
Types == {"NoneType", "bool", "int", "long", "float", "Decimal", "str", "MyStr",
          "basestring", "bytearray", "list", "Custom", "Binary", "object"}

\* type.mro() of the Python 2 types of the values above
Mro(t) ==
    CASE t = "object" -> <<"object">>
      [] t = "bool" -> <<"bool", "int", "object">>
      [] t = "basestring" -> <<"basestring", "object">>
      [] t = "str" -> <<"str", "basestring", "object">>
      [] t = "MyStr" -> <<"MyStr", "str", "basestring", "object">>
      [] OTHER -> <<t, "object">>

Protos == {"ISQLQuote", "Other"}

Classes == {"AsIs", "Binary", "Boolean", "Decimal", "Float", "Int", "List", "Long",
            "QuotedString", "NoneAdapter"}

NoEntry == "KeyError"

Keys == Types \X Protos

(* ---------------------------- connections ------------------------------ *)
NoConn == [bound |-> FALSE, equote |-> FALSE]

Conns == {[bound |-> TRUE, equote |-> e] : e \in BOOLEAN}

(* ---------------------------- formatters ------------------------------- *)
\* _BaseAdapter.__init__: wraps the object, no connection
BaseAdapter(cls, wrapped_object) == [cls |-> cls, wrapped |-> wrapped_object, conn |-> NoConn]

NoFormatter == [cls |-> "", wrapped |-> NoneValue, conn |-> NoConn]

\* Binary.__conform__ returns self; the Binary object wraps items[1]
Conform(value, proto) == BaseAdapter("Binary", value.items[1])

Event(ev, value, key, conn) == [ev |-> ev, val |-> value, key |-> key, conn |-> conn]

Res(outcome, exc, fmt, lit, events, mem) ==
    [outcome |-> outcome, exc |-> exc, fmt |-> fmt, lit |-> lit, events |-> events, mem |-> mem]

NoRes == Res("", "", NoFormatter, <<>>, <<>>, <<>>)

(* the registry seeded by adapters.py:271-297 and __init__.py:20 *)
built_in_adapters ==
    [k \in Keys |->
        IF k[2] # "ISQLQuote" THEN NoEntry
        ELSE CASE k[1] = "bool" -> "Boolean"
               [] k[1] = "list" -> "List"
               [] k[1] = "bytearray" -> "Binary"
               [] k[1] = "float" -> "Float"
               [] k[1] = "Decimal" -> "Decimal"
               [] k[1] = "int" -> "Int"
               [] k[1] = "long" -> "Long"
               [] k[1] = "str" -> "QuotedString"
               [] k[1] = "NoneType" -> "NoneAdapter"
               [] OTHER -> NoEntry]

(* ------------------------------- adapt --------------------------------- *)
\* the lookups of adapt from position i of the mro; when they are exhausted
\* line 254 raises, and lit carries the type name of the message
RECURSIVE WalkMro(_, _, _, _, _)
WalkMroFirstOnly(reg, value, proto, i, events) ==
    LET mro == Mro(value.type) IN
    IF i > Len(mro) \/ i > 1
    THEN Res("raise", "ProgrammingError", NoFormatter, <<value.type>>, events, <<>>)
    ELSE LET ev == events \o <<Event("lookup", value, mro[i], NoConn)>> IN
         IF reg[<<mro[i], proto>>] # NoEntry
         THEN Res("return", "", BaseAdapter(reg[<<mro[i], proto>>], value), <<>>,
                  ev \o <<Event("construct", value, mro[i], NoConn)>>, <<>>)
         ELSE WalkMro(reg, value, proto, i + 1, ev)

WalkMro(reg, value, proto, i, events) ==
    LET mro == Mro(value.type) IN
    IF i > Len(mro)
    THEN Res("raise", "ProgrammingError", NoFormatter, <<value.type>>, events, <<>>)
    ELSE LET ev == events \o <<Event("lookup", value, mro[i], NoConn)>> IN
         IF reg[<<mro[i], proto>>] # NoEntry
         THEN Res("return", "", BaseAdapter(reg[<<mro[i], proto>>], value), <<>>,
                  ev \o <<Event("construct", value, mro[i], NoConn)>>, <<>>)
         ELSE WalkMro(reg, value, proto, i + 1, ev)

\* adapt with the conversion hook consulted after the registry
adaptRegistryFirst(reg, value, proto) ==
    LET r == WalkMro(reg, value, proto, 1, <<>>) IN
    IF r.outcome = "raise" /\ value.hook
    THEN Res("return", "", Conform(value, proto), <<>>,
             r.events \o <<Event("conform", value, "", NoConn)>>, <<>>)
    ELSE r

\* adapt(value, proto): position 1 of the mro is type(value) itself
adapt(reg, value, proto) ==
    IF value.hook
    THEN Res("return", "", Conform(value, proto), <<>>,
             <<Event("conform", value, "", NoConn)>>, <<>>)
    ELSE WalkMro(reg, value, proto, 1, <<>>)

(* --------------------------- text helpers ------------------------------ *)
DigitChar(d) == <<"0", "1", "2", "3", "4", "5", "6", "7", "8", "9">>[d + 1]

RECURSIVE Digits(_)
Digits(n) == IF n < 10 THEN <<DigitChar(n)>> ELSE Digits(n \div 10) \o <<DigitChar(n % 10)>>

Sign(value) == IF value.neg THEN <<"-">> ELSE <<>>

\* str() of an int or long
IntStr(value) == Sign(value) \o Digits(value.mag)

\* repr() of a finite float mag/2
FloatRepr(value) ==
    Sign(value) \o Digits(value.mag \div 2) \o <<".">>
        \o (IF value.mag % 2 = 1 THEN <<"5">> ELSE <<"0">>)

\* str() of a finite decimal
DecimalStr(value) == Sign(value) \o Digits(value.mag)

\* str() as AsIs applies it
PyStr(value) ==
    CASE value.type \in {"int", "long"} -> IntStr(value)
      [] value.type = "bool" -> IF value.mag = 1 THEN <<"T", "r", "u", "e">>
                                ELSE <<"F", "a", "l", "s", "e">>
      [] value.type = "float" /\ value.kind = "fin" -> FloatRepr(value)
      [] value.type = "Decimal" /\ value.kind = "fin" -> DecimalStr(value)
      [] value.type = "NoneType" -> <<"N", "o", "n", "e">>
      [] value.type \in {"str", "MyStr", "bytearray"} -> value.chars
      [] OTHER -> <<"<", value.type, ">">>

startswith(value, c) == Len(value) > 0 /\ value[1] = c

\* _BaseAdapter._ensure_bytes: the alphabet is ASCII, which every encoding
\* the connection or util can apply maps byte for byte
_ensure_bytes(conn, s) == s

\* PQescapeString / PQescapeStringConn: quotes and backslashes are doubled
RECURSIVE PQescapeString(_)
PQescapeString(s) ==
    IF s = <<>> THEN <<>>
    ELSE (IF Head(s) \in {"'", "\\"} THEN <<Head(s), Head(s)>> ELSE <<Head(s)>>)
            \o PQescapeString(Tail(s))

\* PQescapeBytea / PQescapeByteaConn: a quote is doubled, a backslash becomes four
RECURSIVE PQescapeBytea(_)
PQescapeBytea(s) ==
    IF s = <<>> THEN <<>>
    ELSE (CASE Head(s) = "'" -> <<"'", "'">>
            [] Head(s) = "\\" -> <<"\\", "\\", "\\", "\\">>
            [] OTHER -> <<Head(s)>>)
            \o PQescapeBytea(Tail(s))

NULL == <<"N", "U", "L", "L">>

Return(lit, events, mem) == Res("return", "", NoFormatter, lit, events, mem)

Raise(exc, events, mem) == Res("raise", exc, NoFormatter, <<>>, events, mem)

(* what the native calls report: err is the error code PQescapeStringConn   *)
(* stores, bytea is whether the bytea escape returns a buffer or NULL, ub   *)
(* is what reading through a NULL pointer does in this build                 *)
Natives == {[err |-> e, bytea |-> b, ub |-> u] :
                e \in {0, 1}, b \in {"buffer"}, u \in {"raise"}}
           \cup {[err |-> 0, bytea |-> "NULL", ub |-> u] : u \in {"raise", "crash", "garbage"}}
           \cup {[err |-> 0, bytea |-> "ArgumentError", ub |-> "raise"]}

(* ------------------------ scalar formatters ---------------------------- *)
\* AsIs.getquoted
AsIs_getquoted(self) == Return(_ensure_bytes(self.conn, PyStr(self.wrapped)), <<>>, <<>>)

\* Boolean.getquoted
Boolean_getquoted(self) ==
    Return(IF self.wrapped.mag # 0 THEN <<"t", "r", "u", "e">>
           ELSE <<"f", "a", "l", "s", "e">>, <<>>, <<>>)

\* Int.getquoted without the sign-space rule
Int_getquoted_nospace(self) ==
    Return(_ensure_bytes(self.conn, IntStr(self.wrapped)), <<>>, <<>>)

\* Int.getquoted
Int_getquoted(self) ==
    LET value == IntStr(self.wrapped) IN
    Return(_ensure_bytes(self.conn, IF startswith(value, "-") THEN <<" ">> \o value ELSE value),
           <<>>, <<>>)

\* Long.getquoted
Long_getquoted(self) ==
    LET value == IntStr(self.wrapped) IN
    Return(_ensure_bytes(self.conn, IF startswith(value, "-") THEN <<" ">> \o value ELSE value),
           <<>>, <<>>)

\* Float.getquoted
Float_getquoted(self) ==
    IF self.wrapped.kind = "nan"
    THEN Return(<<"'", "N", "a", "N", "'", ":", ":", "f", "l", "o", "a", "t">>, <<>>, <<>>)
    ELSE IF self.wrapped.kind = "inf"
    THEN IF ~self.wrapped.neg
         THEN Return(<<"'", "I", "n", "f", "i", "n", "i", "t", "y", "'",
                       ":", ":", "f", "l", "o", "a", "t">>, <<>>, <<>>)
         ELSE Return(<<"'", "-", "I", "n", "f", "i", "n", "i", "t", "y", "'",
                       ":", ":", "f", "l", "o", "a", "t">>, <<>>, <<>>)
    ELSE LET value == FloatRepr(self.wrapped) IN
         Return(_ensure_bytes(self.conn,
                              IF startswith(value, "-") THEN <<" ">> \o value ELSE value),
                <<>>, <<>>)

\* Decimal.getquoted
Decimal_getquoted(self) ==
    IF self.wrapped.kind = "fin"
    THEN LET value == DecimalStr(self.wrapped) IN
         Return(_ensure_bytes(self.conn,
                              IF startswith(value, "-") THEN <<" ">> \o value ELSE value),
                <<>>, <<>>)
    ELSE Return(<<"'", "N", "a", "N", "'", ":", ":", "n", "u", "m", "e", "r", "i", "c">>,
                <<>>, <<>>)

\* NoneAdapter.getquoted (psycopg2ct.extensions)
NoneAdapter_getquoted(self) == Return(NULL, <<>>, <<>>)

(* ------------------------- text and binary ----------------------------- *)
\* the test "self._conn and self._conn._equote" with the connection test dropped
equote_any(conn) == TRUE

\* the test "self._conn and self._conn._equote" of lines 71 and 232
equote(conn) == conn.bound /\ conn.equote

\* the test "self._conn and PG_VERSION >= 0x080104" of lines 60 and 224
connAware(ver, conn) == conn.bound /\ ver >= ConnAwareVersion

\* QuotedString.getquoted.  On the connection-aware path PQescapeStringConn
\* stores its error code in err; no line reads err afterwards.
QuotedString_getquoted(ver, nat, self) ==
    LET string == _ensure_bytes(self.conn, self.wrapped.chars)
        err == IF connAware(ver, self.conn) THEN nat.err ELSE 0
        to == PQescapeString(string)
    IN  IF equote(self.conn)
        THEN Return(<<"E", "'">> \o to \o <<"'">>, <<>>, <<>>)
        ELSE Return(<<"'">> \o to \o <<"'">>, <<>>, <<>>)

BYTEA == <<"'", ":", ":", "b", "y", "t", "e", "a">>

\* a release that does nothing
PQfreemem_noop(mem) == mem

\* libpq.PQfreemem(data_pointer), line 69
PQfreemem(mem) == mem \o <<"free">>

\* Binary.getquoted.  mem lists what is done to the native buffer, in order.
\* The connection-less call (line 65) passes the value where the length
\* belongs: the binding either rejects the argument or escapes some length.
\* A NULL return is sliced at line 68 without a check; PQfreemem(NULL) frees
\* nothing.
Binary_getquoted(ver, nat, self) ==
    IF self.wrapped.type = "NoneType" THEN Return(NULL, <<>>, <<>>)
    ELSE IF ~connAware(ver, self.conn) /\ nat.bytea = "ArgumentError"
    THEN Raise("ArgumentError", <<>>, <<>>)
    ELSE IF nat.bytea = "NULL"
    THEN CASE nat.ub = "raise" -> Raise("ValueError", <<>>, <<>>)
           [] nat.ub = "crash" -> Res("crash", "", NoFormatter, <<>>, <<>>, <<>>)
           [] OTHER -> IF equote(self.conn)
                       THEN Return(<<"E", "'">> \o BYTEA, <<>>, <<>>)
                       ELSE Return(<<"'">> \o BYTEA, <<>>, <<>>)
    ELSE LET data == PQescapeBytea(self.wrapped.chars)
             mem == PQfreemem(<<"alloc", "read">>)
         IN  IF equote(self.conn)
             THEN Return(<<"E", "'">> \o data \o BYTEA, <<>>, mem)
             ELSE Return(<<"'">> \o data \o BYTEA, <<>>, mem)

(* ------------------------ the quoting pipeline ------------------------- *)
\* the classes that define prepare(); on the others the call raises
\* AttributeError, which _getquoted swallows
HasPrepare(cls) == cls \in {"AsIs", "Binary", "List", "QuotedString"}

\* prepare(connection): self._conn = connection
prepare(self, connection) == [self EXCEPT !.conn = connection]

\* b", ".join(quoted)
RECURSIVE join(_)
join(quoted) ==
    IF quoted = <<>> THEN <<>>
    ELSE IF Len(quoted) = 1 THEN quoted[1]
    ELSE quoted[1] \o <<",", " ">> \o join(Tail(quoted))

RECURSIVE getquoted(_, _, _, _)
RECURSIVE _getquoted(_, _, _, _, _)
RECURSIVE List_loop(_, _, _, _, _, _, _, _)

\* _getquoted without the test for None
_getquoted_noshortcut(reg, ver, nat, param, conn) ==
    LET a == adapt(reg, param, "ISQLQuote")
        ev == <<Event("adapt", param, "", NoConn)>> \o a.events
    IN  IF a.outcome # "return" THEN [a EXCEPT !.events = ev]
        ELSE LET adapter == IF HasPrepare(a.fmt.cls) THEN prepare(a.fmt, conn) ELSE a.fmt
                 ev2 == IF HasPrepare(a.fmt.cls)
                        THEN ev \o <<Event("prepare", param, "", conn)>> ELSE ev
                 q == getquoted(reg, ver, nat, adapter)
             IN  [q EXCEPT !.events = ev2 \o <<Event("getquoted", param, "", adapter.conn)>> \o @]

\* _getquoted(param, conn)
_getquoted(reg, ver, nat, param, conn) ==
    IF param.type = "NoneType" THEN Return(NULL, <<>>, <<>>)
    ELSE LET a == adapt(reg, param, "ISQLQuote")
             ev == <<Event("adapt", param, "", NoConn)>> \o a.events
         IN  IF a.outcome # "return" THEN [a EXCEPT !.events = ev]
             ELSE LET adapter == IF HasPrepare(a.fmt.cls) THEN prepare(a.fmt, conn) ELSE a.fmt
                      ev2 == IF HasPrepare(a.fmt.cls)
                             THEN ev \o <<Event("prepare", param, "", conn)>> ELSE ev
                      q == getquoted(reg, ver, nat, adapter)
                  IN  [q EXCEPT !.events =
                            ev2 \o <<Event("getquoted", param, "", adapter.conn)>> \o @]

\* the loop of List.getquoted with the elements visited last to first
List_loop_reversed(reg, ver, nat, self, i, quoted, events, mem) ==
    IF i > Len(self.wrapped.items)
    THEN Return(<<"A", "R", "R", "A", "Y", "[">> \o join(quoted) \o <<"]">>, events, mem)
    ELSE LET obj == self.wrapped.items[Len(self.wrapped.items) + 1 - i]
             q == _getquoted(reg, ver, nat, obj, self.conn)
         IN  IF q.outcome # "return"
             THEN [q EXCEPT !.events = events \o @, !.mem = mem \o @]
             ELSE List_loop(reg, ver, nat, self, i + 1, Append(quoted, q.lit),
                            events \o q.events, mem \o q.mem)

\* the loop of List.getquoted from element i; an element's exception ends it
List_loop(reg, ver, nat, self, i, quoted, events, mem) ==
    IF i > Len(self.wrapped.items)
    THEN Return(<<"A", "R", "R", "A", "Y", "[">> \o join(quoted) \o <<"]">>, events, mem)
    ELSE LET obj == self.wrapped.items[i]
             q == _getquoted(reg, ver, nat, obj, self.conn)
         IN  IF q.outcome # "return"
             THEN [q EXCEPT !.events = events \o @, !.mem = mem \o @]
             ELSE List_loop(reg, ver, nat, self, i + 1, Append(quoted, q.lit),
                            events \o q.events, mem \o q.mem)

\* List.getquoted
List_getquoted(reg, ver, nat, self) ==
    IF Len(self.wrapped.items) = 0
    THEN Return(<<"'", "{", "}", "'">>, <<>>, <<>>)
    ELSE List_loop(reg, ver, nat, self, 1, <<>>, <<>>, <<>>)

\* adapter.getquoted(), by the adapter's class
getquoted(reg, ver, nat, self) ==
    CASE self.cls = "AsIs" -> AsIs_getquoted(self)
      [] self.cls = "Binary" -> Binary_getquoted(ver, nat, self)
      [] self.cls = "Boolean" -> Boolean_getquoted(self)
      [] self.cls = "Decimal" -> Decimal_getquoted(self)
      [] self.cls = "Float" -> Float_getquoted(self)
      [] self.cls = "Int" -> Int_getquoted(self)
      [] self.cls = "List" -> List_getquoted(reg, ver, nat, self)
      [] self.cls = "Long" -> Long_getquoted(self)
      [] self.cls = "QuotedString" -> QuotedString_getquoted(ver, nat, self)
      [] OTHER -> NoneAdapter_getquoted(self)

(* --------------------------- state machine ----------------------------- *)
Threads == {"t1", "t2"}

\* the values the threads adapt: one per shape of mro, and one with a hook
ThreadValues == {V("MyStr", FALSE, "", FALSE, 0, <<"a">>, <<>>), CustomValue,
                 V("Binary", TRUE, "", FALSE, 0, <<>>, <<NoneValue>>)}

\* the registrations applications make: (type, capability, formatter class)
Registrations == {<<"MyStr", "ISQLQuote", "Binary">>, <<"str", "ISQLQuote", "AsIs">>,
                  <<"Custom", "ISQLQuote", "AsIs">>, <<"object", "ISQLQuote", "QuotedString">>,
                  <<"NoneType", "ISQLQuote", "AsIs">>, <<"int", "Other", "AsIs">>}

\* the values a formatter class is constructed on directly
Accepts(cls, value) ==
    CASE cls = "AsIs" -> value.type \in {"int", "long", "bool", "NoneType", "str"}
                         \/ (value.type \in {"float", "Decimal"} /\ value.kind = "fin")
      [] cls = "Binary" -> value.type \in {"bytearray", "str", "NoneType"}
      [] cls = "Boolean" -> value.type = "bool"
      [] cls = "Decimal" -> value.type = "Decimal"
      [] cls = "Float" -> value.type = "float"
      [] cls = "Int" -> value.type = "int"
      [] cls = "List" -> value.type = "list"
      [] cls = "Long" -> value.type \in {"int", "long"}
      [] cls = "QuotedString" -> value.type \in {"str", "MyStr"}
      [] OTHER -> value.type = "NoneType"

Call(op, cls, value, proto, conn, prepared, nat, res) ==
    [op |-> op, cls |-> cls, value |-> value, proto |-> proto, conn |-> conn,
     prepared |-> prepared, nat |-> nat, res |-> res]

NoNative == [err |-> 0, bytea |-> "buffer", ub |-> "raise"]

NoCall == Call("none", "", NoneValue, "", NoConn, FALSE, NoNative, NoRes)

\* what a thread's adapt call came to: how it ended and with which class
Chosen(r) == <<r.outcome, r.fmt.cls>>

InProgress(t) == pc[t] \in {"exact", "mro"}

Init ==
    /\ adapters = built_in_adapters
    /\ PG_VERSION \in {ConnAwareVersion - 1, ConnAwareVersion}
    /\ call = NoCall
    /\ nregs = 0
    /\ pc = [t \in Threads |-> "idle"]
    /\ tval = [t \in Threads |-> NoneValue]
    /\ tproto = [t \in Threads |-> ""]
    /\ idx = [t \in Threads |-> 0]
    /\ result = [t \in Threads |-> NoRes]
    /\ seen = [t \in Threads |-> {}]

tvars == <<pc, tval, tproto, idx, result>>

\* register_adapter(typ, callable): adapters[(typ, proto)] = callable.
\* seen records, for every adapt call in progress, what an uninterrupted
\* adapt would choose in the new registry.
register_adapter(typ, proto, callable) ==
    /\ call.op = "none"
    /\ nregs < MaxRegs
    /\ nregs' = nregs + 1
    /\ adapters' = [adapters EXCEPT ![<<typ, proto>>] = callable]
    /\ seen' = [t \in Threads |->
                    IF InProgress(t)
                    THEN seen[t] \cup {Chosen(adapt(adapters', tval[t], tproto[t]))}
                    ELSE seen[t]]
    /\ UNCHANGED <<PG_VERSION, call, tvars>>

(* ---- one thread at a time: the calls made on the module ---- *)
CallAdapt(value, proto) ==
    /\ call.op = "none"
    /\ call' = Call("adapt", "", value, proto, NoConn, FALSE, NoNative,
                    adapt(adapters, value, proto))
    /\ UNCHANGED <<adapters, PG_VERSION, nregs, tvars, seen>>

CallGetquoted(param, conn, nat) ==
    /\ call.op = "none"
    /\ call' = Call("_getquoted", "", param, "ISQLQuote", conn, TRUE, nat,
                    _getquoted(adapters, PG_VERSION, nat, param, conn))
    /\ UNCHANGED <<adapters, PG_VERSION, nregs, tvars, seen>>

\* cls(value), then prepare(conn) when the caller makes that call, then getquoted()
CallFormatter(cls, value, prepared, conn, nat) ==
    /\ call.op = "none"
    /\ Accepts(cls, value)
    /\ prepared => HasPrepare(cls)
    /\ ~prepared => conn = NoConn
    /\ LET f == BaseAdapter(cls, value)
           adapter == IF prepared THEN prepare(f, conn) ELSE f
       IN  call' = Call("getquoted", cls, value, "ISQLQuote", adapter.conn, prepared, nat,
                        getquoted(adapters, PG_VERSION, nat, adapter))
    /\ UNCHANGED <<adapters, PG_VERSION, nregs, tvars, seen>>

CallReturn ==
    /\ call.op # "none"
    /\ call' = NoCall
    /\ UNCHANGED <<adapters, PG_VERSION, nregs, tvars, seen>>

(* ---- adapt run by threads, one registry access per step ---- *)
\* lines 240-244: the hook test touches no shared state
AdaptBegin(t, value, proto) ==
    /\ pc[t] = "idle"
    /\ tval' = [tval EXCEPT ![t] = value]
    /\ tproto' = [tproto EXCEPT ![t] = proto]
    /\ seen' = [seen EXCEPT ![t] = {Chosen(adapt(adapters, value, proto))}]
    /\ IF value.hook
       THEN /\ result' = [result EXCEPT ![t] =
                            Res("return", "", Conform(value, proto), <<>>, <<>>, <<>>)]
            /\ pc' = [pc EXCEPT ![t] = "done"]
       ELSE /\ result' = [result EXCEPT ![t] = NoRes]
            /\ pc' = [pc EXCEPT ![t] = "exact"]
    /\ idx' = [idx EXCEPT ![t] = 1]
    /\ UNCHANGED <<adapters, PG_VERSION, call, nregs>>

\* line 246: adapters[(obj_type, proto)](value), KeyError caught at 247
AdaptExact(t) ==
    /\ pc[t] = "exact"
    /\ LET cls == adapters[<<tval[t].type, tproto[t]>>] IN
       IF cls # NoEntry
       THEN /\ result' = [result EXCEPT ![t] =
                            Res("return", "", BaseAdapter(cls, tval[t]), <<>>, <<>>, <<>>)]
            /\ pc' = [pc EXCEPT ![t] = "done"]
            /\ idx' = idx
       ELSE /\ pc' = [pc EXCEPT ![t] = "mro"]
            /\ idx' = [idx EXCEPT ![t] = 2]
            /\ result' = result
    /\ UNCHANGED <<adapters, PG_VERSION, call, nregs, tval, tproto, seen>>

\* lines 248-252: one turn of the loop over obj_type.mro()[1:]
AdaptAncestor(t) ==
    /\ pc[t] = "mro"
    /\ idx[t] <= Len(Mro(tval[t].type))
    /\ LET cls == adapters[<<Mro(tval[t].type)[idx[t]], tproto[t]>>] IN
       IF cls # NoEntry
       THEN /\ result' = [result EXCEPT ![t] =
                            Res("return", "", BaseAdapter(cls, tval[t]), <<>>, <<>>, <<>>)]
            /\ pc' = [pc EXCEPT ![t] = "done"]
            /\ idx' = idx
       ELSE /\ idx' = [idx EXCEPT ![t] = @ + 1]
            /\ UNCHANGED <<pc, result>>
    /\ UNCHANGED <<adapters, PG_VERSION, call, nregs, tval, tproto, seen>>

\* line 254: the loop ended without a match
AdaptRaise(t) ==
    /\ pc[t] = "mro"
    /\ idx[t] > Len(Mro(tval[t].type))
    /\ result' = [result EXCEPT ![t] =
                    Res("raise", "ProgrammingError", NoFormatter, <<tval[t].type>>, <<>>, <<>>)]
    /\ pc' = [pc EXCEPT ![t] = "done"]
    /\ UNCHANGED <<adapters, PG_VERSION, call, nregs, tval, tproto, idx, seen>>

\* the caller takes the result
AdaptEnd(t) ==
    /\ pc[t] = "done"
    /\ pc' = [pc EXCEPT ![t] = "idle"]
    /\ tval' = [tval EXCEPT ![t] = NoneValue]
    /\ tproto' = [tproto EXCEPT ![t] = ""]
    /\ idx' = [idx EXCEPT ![t] = 0]
    /\ result' = [result EXCEPT ![t] = NoRes]
    /\ seen' = [seen EXCEPT ![t] = {}]
    /\ UNCHANGED <<adapters, PG_VERSION, call, nregs>>

Register == \E r \in Registrations : register_adapter(r[1], r[2], r[3])

\* a call is made only when the previous one has returned, so the test is
\* made once, ahead of the choice of arguments
Next ==
    \/ Register
    \/ /\ call.op = "none"
       /\ \E value \in Values, proto \in Protos : CallAdapt(value, proto)
    \/ /\ call.op = "none"
       /\ \E param \in Values, conn \in Conns \cup {NoConn}, nat \in Natives :
            CallGetquoted(param, conn, nat)
    \/ /\ call.op = "none"
       /\ \E cls \in Classes, value \in Values, prepared \in BOOLEAN,
             conn \in Conns \cup {NoConn}, nat \in Natives :
            CallFormatter(cls, value, prepared, conn, nat)
    \/ CallReturn

Spec == Init /\ [][Next]_vars

NextThreads ==
    \/ Register
    \/ \E t \in Threads, value \in ThreadValues : AdaptBegin(t, value, "ISQLQuote")
    \/ \E t \in Threads : AdaptExact(t)
    \/ \E t \in Threads : AdaptAncestor(t)
    \/ \E t \in Threads : AdaptRaise(t)
    \/ \E t \in Threads : AdaptEnd(t)

SpecThreads == Init /\ [][NextThreads]_vars

TypeOK ==
    /\ adapters \in [Keys -> Classes \cup {NoEntry}]
    /\ nregs \in 0..MaxRegs
    /\ call.op \in {"none", "adapt", "_getquoted", "getquoted"}
    /\ \A t \in Threads : pc[t] \in {"idle", "exact", "mro", "done"}

(* ------------------------------ claims --------------------------------- *)
Min(S) == CHOOSE i \in S : \A j \in S : i <= j

\* the positions of the value's mro that have a registry entry for the capability
Hits(value, proto) ==
    {i \in 1..Len(Mro(value.type)) : adapters[<<Mro(value.type)[i], proto>>] # NoEntry}

IsLookup(e) == e.ev = "lookup"

LookupKeys(events) ==
    LET ls == SelectSeq(events, IsLookup) IN [i \in 1..Len(ls) |-> ls[i].key]

\* C2: adapt resolves in strict precedence order: a conversion hook wins and
\* the registry is not read at all; otherwise the registry is read along the
\* mro, the value's own type first, and the formatter is the entry of the
\* first type that has one, wrapping the value.
C2_AdaptPrecedence ==
    call.op = "adapt" =>
        LET v == call.value
            hits == Hits(v, call.proto)
        IN  IF v.hook
            THEN /\ call.res.outcome = "return"
                 /\ call.res.fmt = Conform(v, call.proto)
                 /\ LookupKeys(call.res.events) = <<>>
            ELSE hits # {} =>
                 /\ call.res.outcome = "return"
                 /\ call.res.fmt.cls = adapters[<<Mro(v.type)[Min(hits)], call.proto>>]
                 /\ call.res.fmt.wrapped = v
                 /\ LookupKeys(call.res.events) = SubSeq(Mro(v.type), 1, Min(hits))

\* an instance of an unregistered subclass of str got the formatter of str
C2_Witness ==
    /\ call.op = "adapt"
    /\ call.value.type = "MyStr"
    /\ adapters[<<"MyStr", call.proto>>] = NoEntry
    /\ adapters[<<"str", call.proto>>] # NoEntry
    /\ call.res.outcome = "return"
    /\ call.res.fmt.cls = adapters[<<"str", call.proto>>]

\* C3: for a value without a hook adapt raises ProgrammingError, naming the
\* value's type, exactly when no type of the mro has an entry for the
\* capability; otherwise it returns a formatter.
C3_RaisesIffNoEntry ==
    (call.op = "adapt" /\ ~call.value.hook) =>
        /\ call.res.outcome \in {"return", "raise"}
        /\ (call.res.outcome = "raise") <=> (Hits(call.value, call.proto) = {})
        /\ call.res.outcome = "raise" =>
                call.res.exc = "ProgrammingError" /\ call.res.lit = <<call.value.type>>
        /\ call.res.outcome = "return" => call.res.fmt.cls \in Classes

\* a type without any registered ancestor was refused
C3_Witness ==
    /\ call.op = "adapt"
    /\ call.value = CustomValue
    /\ Hits(call.value, call.proto) = {}
    /\ call.res.outcome = "raise"

\* C4: when the connection-aware string escape reports a non-zero error code,
\* QuotedString.getquoted raises and returns no literal.
C4_EscapeErrorRaises ==
    (/\ call.op = "getquoted"
     /\ call.cls = "QuotedString"
     /\ connAware(PG_VERSION, call.conn)
     /\ call.nat.err # 0) => (call.res.outcome = "raise" /\ call.res.lit = <<>>)

Count(mem, x) == Cardinality({i \in 1..Len(mem) : mem[i] = x})

NumericCall ==
    /\ call.op = "getquoted"
    /\ call.cls \in {"Int", "Long", "Float", "Decimal"}
    /\ call.res.outcome = "return"

SpaceMinus(lit) == Len(lit) >= 2 /\ lit[1] = " " /\ lit[2] = "-"

\* C6 as stated: every negative int, float or decimal, negative zero and
\* negative infinity included, is rendered with a space and then a minus.
C6_NegativeSpaceMinus ==
    (NumericCall /\ call.value.neg /\ call.value.kind \in {"fin", "inf"}) =>
        SpaceMinus(call.res.lit)

\* C6 amended: every finite negative int, float or decimal, negative zero
\* included, is rendered with a space and then a minus.
C6_FiniteNegativeSpaceMinus ==
    (NumericCall /\ call.value.neg /\ call.value.kind = "fin") => SpaceMinus(call.res.lit)

\* negative zero was rendered by the float formatter
C6_Witness ==
    /\ NumericCall
    /\ call.cls = "Float"
    /\ call.value.neg
    /\ call.value.kind = "fin"
    /\ call.value.mag = 0
    /\ SpaceMinus(call.res.lit)

StartsE(lit) == Len(lit) >= 2 /\ lit[1] = "E" /\ lit[2] = "'"

\* C7: a text or binary literal starts with E' exactly when the formatter is
\* bound to a connection in extended-escape mode when getquoted runs; in
\* every other case it starts with a plain quote.
C7_EPrefix ==
    (/\ call.op = "getquoted"
     /\ call.cls \in {"QuotedString", "Binary"}
     /\ call.value.type # "NoneType"
     /\ call.res.outcome = "return") =>
        /\ StartsE(call.res.lit) <=> (call.prepared /\ call.conn.bound /\ call.conn.equote)
        /\ ~StartsE(call.res.lit) => call.res.lit[1] = "'"

\* a text literal was produced on a connection in extended-escape mode
C7_Witness ==
    /\ call.op = "getquoted"
    /\ call.cls = "QuotedString"
    /\ call.prepared
    /\ call.conn.bound
    /\ call.conn.equote
    /\ call.res.outcome = "return"
    /\ StartsE(call.res.lit)

RECURSIVE Flatten(_)
Flatten(seqs) == IF seqs = <<>> THEN <<>> ELSE Head(seqs) \o Flatten(Tail(seqs))

\* the full pipeline on one element: adapt, prepare with the connection when
\* the formatter has that step, getquoted; with what each step left behind
Pipeline(e, conn) ==
    LET a == adapt(adapters, e, "ISQLQuote")
        f == IF HasPrepare(a.fmt.cls) THEN [a.fmt EXCEPT !.conn = conn] ELSE a.fmt
        q == getquoted(adapters, PG_VERSION, call.nat, f)
    IN  [lit |-> q.lit,
         events |-> <<Event("adapt", e, "", NoConn)>> \o a.events
                    \o (IF HasPrepare(a.fmt.cls) THEN <<Event("prepare", e, "", conn)>>
                        ELSE <<>>)
                    \o <<Event("getquoted", e, "", f.conn)>> \o q.events]

NullToken == [lit |-> <<"N", "U", "L", "L">>, events |-> <<>>]

ListCall ==
    /\ call.op = "getquoted"
    /\ call.cls = "List"
    /\ call.res.outcome = "return"

ArrayOf(entries) ==
    <<"A", "R", "R", "A", "Y", "[">>
        \o (IF Len(entries) = 1 THEN entries[1].lit
            ELSE entries[1].lit \o Flatten([i \in 1..(Len(entries) - 1) |->
                                                <<",", " ">> \o entries[i + 1].lit]))
        \o <<"]">>

RECURSIVE SplitCommas(_, _)
SplitCommas(s, cur) ==
    IF s = <<>> THEN <<cur>>
    ELSE IF Head(s) = "," THEN <<cur>> \o SplitCommas(Tail(Tail(s)), <<>>)
    ELSE SplitCommas(Tail(s), Append(cur, Head(s)))

ArrayEntries(lit) == SplitCommas(SubSeq(lit, 7, Len(lit) - 1), <<>>)

QuotingCall == call.op \in {"_getquoted", "getquoted"} /\ call.res.outcome = "return"

\* C9: None is quoted as NULL at the top level and as an element at any
\* depth, and nothing is dispatched for it: no hook call, no registry lookup,
\* no formatter construction, no prepare, no getquoted.
C9_NoneIsNULL ==
    /\ (call.op = "_getquoted" /\ call.value = NoneValue) =>
            call.res = Return(<<"N", "U", "L", "L">>, <<>>, <<>>)
    /\ (call.op \in {"_getquoted", "getquoted"} /\ call.value.type # "NoneType") =>
            \A i \in 1..Len(call.res.events) : call.res.events[i].val # NoneValue
    /\ (QuotingCall /\ call.value \in FlatLists /\ call.value.items # <<>>
            /\ (call.op = "getquoted" => call.cls = "List")
            /\ (call.op = "_getquoted" => call.res.events[3].ev = "construct"
                                           /\ call.res.events[3].key = "list")) =>
            LET entries == ArrayEntries(call.res.lit) IN
            /\ Len(entries) = Len(call.value.items)
            /\ \A i \in 1..Len(entries) :
                    call.value.items[i] = NoneValue => entries[i] = <<"N", "U", "L", "L">>
    /\ (QuotingCall /\ call.op = "getquoted" /\ call.cls = "List"
            /\ call.value = ListOf(<<ListOf(<<NoneValue>>)>>)) =>
            call.res.lit = <<"A", "R", "R", "A", "Y", "[", "A", "R", "R", "A", "Y", "[",
                             "N", "U", "L", "L", "]", "]">>

\* a sequence with a None element was quoted while the registry held a
\* formatter for the type of None
C9_Witness ==
    /\ call.op = "_getquoted"
    /\ call.res.outcome = "return"
    /\ call.value \in FlatLists
    /\ Len(call.value.items) = 2
    /\ call.value.items[2] = NoneValue
    /\ call.value.items[1] # NoneValue
    /\ adapters[<<"NoneType", "ISQLQuote">>] # NoEntry
    /\ ArrayEntries(call.res.lit)[2] = <<"N", "U", "L", "L">>

\* C1: no registration takes effect while a thread is between two registry
\* reads of one adapt call.
C1_NoRegistrationDuringLookup ==
    [][nregs' # nregs => \A t \in Threads : pc[t] # "mro"]_vars

\* C10: the formatter class an adapt call ends with (or its failure) is what
\* an uninterrupted adapt chooses in one of the registry states that existed
\* during the call.
C10_LookupLinearizable ==
    \A t \in Threads : pc[t] = "done" => Chosen(result[t]) \in seen[t]

====
